---- MODULE Spec2Model ----
(***************************************************************************)
(* Model of the advisory classification and indexing pipeline:            *)
(* tools.py (fetch_cisa_advisories, find_similar_mitre_techniques,        *)
(* map_to_mitre_attack, create_mitre_embeddings) and indexmanager.py      *)
(* (IndexManager).  Every IndexManager method is one action; the external *)
(* collaborators (feed, embedding provider, completion provider) are      *)
(* inputs drawn from small sets.                                          *)
(***************************************************************************)
EXTENDS Integers, Sequences, FiniteSets, TLC

VARIABLES
    index,            \* IndexManager.index: the in-memory vector index
    advisories_data,  \* IndexManager.advisories_data: the in-memory corpus
    mitre_embeddings, \* IndexManager.mitre_embeddings
    storage,          \* INDEX_PERSIST_PATH: persisted index and advisories_metadata.json
    feed,             \* what the CISA RSS feed currently serves
    last,             \* the last IndexManager call: its name, flags, provider calls, outcome
    cls,              \* the last stand-alone map_to_mitre_attack call and its result
    rank,             \* the last stand-alone find_similar_mitre_techniques call
    mode              \* what the environment may do: "plain", "disk" (writes to the
                      \* storage may fail), "evasive" (completions are JSON of another shape)

vars == <<index, advisories_data, mitre_embeddings, storage, feed, last, cls, rank, mode>>

(***************************************************************************)
(* Bounds and program constants                                            *)
(***************************************************************************)
MaxFeed == 2                \* entries the feed serves at most
MaxMapped == 4              \* ids a completion response lists at most
MaxTaxonomy == 3            \* techniques an embedding map is built from at most
MaxTopK == 3                \* the largest top_k asked for
MaxFaults == 1              \* writes to the storage that fail at most
MaxChunkTokens == 2         \* tokens one embedding call is to receive at most
MAX_ADVISORIES == 60
TOP_K == 5

Min(a, b) == IF a < b THEN a ELSE b

Range(s) == {s[i] : i \in 1..Len(s)}

Take(s, n) == SubSeq(s, 1, Min(n, Len(s)))

RECURSIVE SeqsUpTo(_, _)
SeqsUpTo(S, n) ==
    IF n = 0 THEN {<<>>}
    ELSE LET shorter == SeqsUpTo(S, n - 1)
         IN  shorter \cup {Append(s, x) : s \in {t \in shorter : Len(t) = n - 1}, x \in S}

(***************************************************************************)
(* Python values                                                           *)
(***************************************************************************)
None == [type |-> "None"]

IsDict(v) == v.type = "dict"

\* dict.get(key, default) on a parsed completion response
DictGet(d, key, default) == IF key \in d.keys THEN d[key] ELSE default

(***************************************************************************)
(* The taxonomy (assets/mitre-ics.json) and the embedding provider         *)
(***************************************************************************)
MitreData ==
    << [Id |-> "T1"], [Id |-> "T2"], [Id |-> "T3"],
       [Id |-> "T4"], [Id |-> "T5"], [Id |-> "T6"] >>

TechniqueIds == {MitreData[i].Id : i \in 1..Len(MitreData)}

\* embed_model.get_text_embedding: the provider's vector for a text
TextEmbedding(text) ==
    CASE text = "T1" -> <<1, 0>>
      [] text = "T2" -> <<0, 1>>
      [] text = "T3" -> <<1, 1>>
      [] text = "T4" -> <<2, 1>>
      [] text = "T5" -> <<1, 2>>
      [] text = "T6" -> <<-1, 0>>
      [] text = "a"  -> <<1, 0>>
      [] text = "b"  -> <<-1, 1>>
      [] text = "z"  -> <<0, 0>>
      [] OTHER       -> <<1, 1>>

RECURSIVE create_mitre_embeddings_from(_, _)
\* the dict built by the loop of create_mitre_embeddings, in insertion order;
\* a repeated Id overwrites the value and keeps the first position
create_mitre_embeddings_from(data, acc) ==
    IF data = <<>> THEN acc
    ELSE LET item  == Head(data)
             entry == [technique_id |-> item.Id,
                       embedding    |-> TextEmbedding(item.Id),
                       details      |-> item]
             at    == {i \in 1..Len(acc) : acc[i].technique_id = item.Id}
         IN  create_mitre_embeddings_from(
                 Tail(data),
                 IF at = {} THEN Append(acc, entry)
                 ELSE [i \in 1..Len(acc) |-> IF i \in at THEN entry ELSE acc[i]])

create_mitre_embeddings(data) == create_mitre_embeddings_from(data, <<>>)

(***************************************************************************)
(* tools.find_similar_mitre_techniques                                     *)
(***************************************************************************)
Dot(u, v) == u[1] * v[1] + u[2] * v[2]

NormSq(u) == Dot(u, u)

\* the cosine similarity dot / (|m| * |a|), kept exact as the pair (dot, |m|^2 * |a|^2);
\* there is nothing added to the denominator: with a vector of norm 0 the
\* division is 0.0 / 0.0, which numpy evaluates to nan (the pair with nsq = 0)
CosineSim(mitre_emb, advisory_emb) ==
    [dot |-> Dot(mitre_emb, advisory_emb),
     nsq |-> NormSq(mitre_emb) * NormSq(advisory_emb)]

\* float('nan'): the similarity whose denominator was 0
IsNaN(x) == x.nsq = 0

\* x < y on two similarities: compares dot / sqrt(nsq), and is False when
\* either is nan
SimLess(x, y) ==
    IF IsNaN(x) \/ IsNaN(y) THEN FALSE
    ELSE IF x.dot < 0 /\ y.dot >= 0 THEN TRUE
    ELSE IF x.dot >= 0 /\ y.dot < 0 THEN FALSE
    ELSE IF x.dot >= 0 THEN x.dot * x.dot * y.nsq < y.dot * y.dot * x.nsq
    ELSE x.dot * x.dot * y.nsq > y.dot * y.dot * x.nsq

RECURSIVE InsertDesc_before(_, _)
\* InsertDesc with x placed in front of the elements equal to it
InsertDesc_before(sorted, x) ==
    IF sorted = <<>> THEN <<x>>
    ELSE IF ~SimLess(x.similarity, Head(sorted).similarity)
         THEN <<x>> \o sorted
         ELSE <<Head(sorted)>> \o InsertDesc_before(Tail(sorted), x)

RECURSIVE InsertDesc(_, _)
\* x placed behind every element that is not smaller than it
InsertDesc(sorted, x) ==
    IF sorted = <<>> THEN <<x>>
    ELSE IF SimLess(Head(sorted).similarity, x.similarity)
         THEN <<x>> \o sorted
         ELSE <<Head(sorted)>> \o InsertDesc(Tail(sorted), x)

RECURSIVE SortDesc(_, _)
\* list.sort(key=similarity, reverse=True): descending, equal keys keep their order
SortDesc(s, acc) ==
    IF s = <<>> THEN acc ELSE SortDesc(Tail(s), InsertDesc(acc, Head(s)))

\* find_similar_mitre_techniques without the sort
find_similar_mitre_techniques_unsorted(advisory_content, embeddings, top_k) ==
    Take([i \in 1..Len(embeddings) |->
             [technique_id |-> embeddings[i].technique_id,
              similarity   |-> CosineSim(embeddings[i].embedding,
                                         TextEmbedding(advisory_content)),
              details      |-> embeddings[i].details]],
         top_k)

find_similar_mitre_techniques(advisory_content, embeddings, top_k) ==
    LET advisory_embedding == TextEmbedding(advisory_content)
        similarities ==
            [i \in 1..Len(embeddings) |->
                [technique_id |-> embeddings[i].technique_id,
                 similarity   |-> CosineSim(embeddings[i].embedding, advisory_embedding),
                 details      |-> embeddings[i].details]]
    IN  Take(SortDesc(similarities, <<>>), top_k)

(***************************************************************************)
(* The completion provider and json.loads                                  *)
(***************************************************************************)
\* the response texts: "not json", "null", a JSON array, a JSON object
GarbageText == [form |-> "garbage", keys |-> {}, mapped_techniques |-> <<>>]

NullText == [form |-> "null", keys |-> {}, mapped_techniques |-> <<>>]

ArrayText(ids) == [form |-> "array", keys |-> {}, mapped_techniques |-> ids]

ObjectText(keys, ids) == [form |-> "object", keys |-> keys, mapped_techniques |-> ids]

\* json.loads(response.text): raises on text that is not JSON, and otherwise
\* returns the Python value of the JSON value
json_loads(text) ==
    CASE text.form = "garbage" -> [raised |-> TRUE, value |-> None]
      [] text.form = "null"    -> [raised |-> FALSE, value |-> None]
      [] text.form = "array"   ->
            [raised |-> FALSE,
             value  |-> [type |-> "list", items |-> text.mapped_techniques]]
      [] OTHER ->
            [raised |-> FALSE,
             value  |-> [type |-> "dict",
                         keys |-> text.keys,
                         mapped_techniques |->
                             IF "mapped_techniques" \in text.keys
                             THEN text.mapped_techniques ELSE <<>>,
                         confidence |->
                             IF "confidence" \in text.keys THEN "high" ELSE "N/A"]]

\* what the providers do during one map_to_mitre_attack call
Outcome(embed_raises, complete_raises, text) ==
    [embed_raises |-> embed_raises, complete_raises |-> complete_raises, text |-> text]

(***************************************************************************)
(* tools.map_to_mitre_attack                                               *)
(***************************************************************************)
\* the tokens of a text given to the embedding provider: the summary and title
\* "a" is one token long, "b" three
Tokens(text) ==
    CASE text = "a" -> <<"a">>
      [] text = "b" -> <<"b", "b", "b">>
      [] OTHER      -> <<text>>

\* embed_model.get_text_embedding(content): the provider receives the text whole
EmbedCall(content) == [fn |-> "embed", content |-> content, techniques |-> <<>>]

CompleteCall(content, techniques) ==
    [fn |-> "complete", content |-> content, techniques |-> techniques]

\* Stage 2 of map_to_mitre_attack: the completion call on the techniques given
\* and json.loads of its text; any exception ends in the function returning None
refine(advisory_content, embed_calls, techniques_to_analyze, outcome) ==
    [value |-> IF outcome.complete_raises \/ json_loads(outcome.text).raised THEN None
               ELSE json_loads(outcome.text).value,
     calls |-> Append(embed_calls, CompleteCall(advisory_content, techniques_to_analyze)),
     reached |-> IF outcome.complete_raises \/ json_loads(outcome.text).raised
                 THEN "refine" ELSE "done",
     techniques |-> techniques_to_analyze]

\* techniques_to_analyze_of with the whole taxonomy, whatever the candidates
techniques_to_analyze_of_all(candidates) ==
    [i \in 1..Len(MitreData) |-> MitreData[i].Id]

\* candidate_techniques if candidate_techniques else mitre_data, as the ids
\* serialized into the prompt
techniques_to_analyze_of(candidates) ==
    IF candidates # <<>> THEN [i \in 1..Len(candidates) |-> candidates[i].technique_id]
    ELSE [i \in 1..Len(MitreData) |-> MitreData[i].Id]

\* the embedding calls of create_mitre_embeddings: one per item of the taxonomy,
\* the technique's text standing by its Id
create_mitre_embeddings_calls(data) == [i \in 1..Len(data) |-> EmbedCall(data[i].Id)]

\* map_stages with Stage 1 run whether or not there are embeddings
map_stages_ranking(advisory_content, embeddings, outcome, candidates) ==
    IF outcome.embed_raises
    THEN [value |-> None, calls |-> <<EmbedCall(advisory_content)>>,
          reached |-> "rank", techniques |-> <<>>]
    ELSE refine(advisory_content, <<EmbedCall(advisory_content)>>,
                techniques_to_analyze_of(candidates), outcome)

\* map_stages with the taxonomy embedded anew for the call
map_stages_reembedding(advisory_content, embeddings, outcome, candidates) ==
    IF embeddings # <<>> /\ outcome.embed_raises
    THEN [value |-> None, calls |-> <<EmbedCall(advisory_content)>>,
          reached |-> "rank", techniques |-> <<>>]
    ELSE IF embeddings # <<>>
    THEN refine(advisory_content,
                create_mitre_embeddings_calls(MitreData) \o <<EmbedCall(advisory_content)>>,
                techniques_to_analyze_of(candidates), outcome)
    ELSE refine(advisory_content, <<>>, techniques_to_analyze_of(<<>>), outcome)

\* map_stages going on to Stage 2 on the whole taxonomy when Stage 1 raised
map_stages_fallthrough(advisory_content, embeddings, outcome, candidates) ==
    IF embeddings # <<>> /\ outcome.embed_raises
    THEN refine(advisory_content, <<EmbedCall(advisory_content)>>,
                techniques_to_analyze_of(<<>>), outcome)
    ELSE IF embeddings # <<>>
    THEN refine(advisory_content, <<EmbedCall(advisory_content)>>,
                techniques_to_analyze_of(candidates), outcome)
    ELSE refine(advisory_content, <<>>, techniques_to_analyze_of(<<>>), outcome)

\* map_to_mitre_attack with the Stage 1 ranking at hand (candidates, which is
\* looked at only when Stage 1 runs and its embedding call does not raise): the
\* value returned, the provider calls made, the stage reached and the technique
\* ids serialized into the prompt; every exception is caught and None is returned
map_stages(advisory_content, embeddings, outcome, candidates) ==
    IF embeddings # <<>> /\ outcome.embed_raises
    THEN [value |-> None, calls |-> <<EmbedCall(advisory_content)>>,
          reached |-> "rank", techniques |-> <<>>]
    ELSE IF embeddings # <<>>
    THEN refine(advisory_content, <<EmbedCall(advisory_content)>>,
                techniques_to_analyze_of(candidates), outcome)
    ELSE refine(advisory_content, <<>>, techniques_to_analyze_of(<<>>), outcome)

map_to_mitre_attack(advisory_content, embeddings, outcome) ==
    map_stages(advisory_content, embeddings, outcome,
               find_similar_mitre_techniques(advisory_content, embeddings, TOP_K))

(***************************************************************************)
(* tools.fetch_cisa_advisories                                             *)
(***************************************************************************)
\* a feed entry: its guid when it has one, and its summary and title
Entry(has_id, id, text) == [has_id |-> has_id, id |-> id, text |-> text]

\* fetch_cisa_advisories returning an empty list when anything raised
fetch_cisa_advisories_empty(served) ==
    IF served.raises THEN [is_none |-> FALSE, items |-> <<>>]
    ELSE [is_none |-> FALSE,
          items   |-> [i \in 1..Len(Take(served.entries, MAX_ADVISORIES)) |->
                          [id      |-> IF served.entries[i].has_id THEN served.entries[i].id
                                       ELSE "advisory_" \o ToString(i - 1),
                           content |-> served.entries[i].text]]]

\* the list of advisories, or None when anything raised inside the try block
fetch_cisa_advisories(served) ==
    IF served.raises THEN [is_none |-> TRUE, items |-> <<>>]
    ELSE LET entries == Take(served.entries, MAX_ADVISORIES)
         IN  [is_none |-> FALSE,
              items   |-> [i \in 1..Len(entries) |->
                              [id      |-> IF entries[i].has_id THEN entries[i].id
                                           ELSE "advisory_" \o ToString(i - 1),
                               content |-> entries[i].text]]]

(***************************************************************************)
(* indexmanager.IndexManager                                               *)
(***************************************************************************)
NoIndex == [is_none |-> TRUE, docs |-> <<>>]

IndexOf(docs) == [is_none |-> FALSE, docs |-> docs]

\* the storage directory: the persisted index, and advisories_metadata.json with
\* the records it holds, whether it is cut short (torn), and the records of the
\* last write of it that succeeded (written)
NoStorage ==
    [exists |-> FALSE, index_docs |-> <<>>, metadata_exists |-> FALSE, metadata |-> <<>>,
     torn |-> FALSE, written |-> <<>>, faults |-> 0]

\* the object's fields and the storage, with what the running call has done so far
Machine ==
    [index |-> index, advisories_data |-> advisories_data, storage |-> storage,
     batch |-> <<>>, classified |-> <<>>, failed |-> <<>>, calls |-> <<>>,
     fetches |-> 0, raised |-> FALSE, persist_failed |-> FALSE]

Raise(M) == [M EXCEPT !.raised = TRUE]

\* Document(text=enhanced_content, metadata={...})
Document(advisory, mitre_mapping) ==
    [id |-> advisory.id,
     content |-> advisory.content,
     mitre_techniques |-> DictGet(mitre_mapping, "mapped_techniques", <<>>),
     confidence |-> DictGet(mitre_mapping, "confidence", "N/A")]

\* advisory.copy() with advisory_data['mitre_mapping'] = mitre_mapping
Processed(advisory, mitre_mapping) ==
    [id |-> advisory.id, content |-> advisory.content, mitre_mapping |-> mitre_mapping]

\* a loop over the advisories given, before its first item: the documents and
\* records built so far, the items classified, those whose classification returned
\* no mapping, and the provider calls made
StartBatch(advisories) ==
    [batch |-> advisories, documents |-> <<>>, processed |-> <<>>,
     classified |-> <<>>, failed |-> <<>>, calls |-> <<>>, raised |-> FALSE]

\* a feed entry with a guid, its text being its summary and title
Entries == {Entry(TRUE, "g1", "a"), Entry(TRUE, "g1", "b"), Entry(TRUE, "g2", "a")}

\* the entries the feed may publish: in mode "guidless", entries without a guid,
\* for which entry.get('id', f'advisory_{i}') takes its default
FeedEntries ==
    IF mode = "guidless"
    THEN {Entry(FALSE, "", "a"), Entry(FALSE, "", "b"), Entry(TRUE, "g1", "a")}
    ELSE Entries

GoodText == ObjectText({"mapped_techniques", "confidence"}, <<"T2">>)

\* a completion text that is JSON without the mapped_techniques array: an object
\* that lacks the field, an array, null
EvasiveTexts == {ObjectText({"confidence"}, <<>>), ArrayText(<<"T2">>), NullText}

\* what the providers may do for one item during a sync pass: the embedding call
\* raises, the completion call raises, the completion text is not JSON, or the
\* text is the JSON object asked for; in mode "evasive", the text is the JSON
\* object asked for or JSON of another shape
SyncOutcomes ==
    IF mode = "evasive"
    THEN {Outcome(FALSE, FALSE, text) : text \in EvasiveTexts \cup {GoodText}}
    ELSE {Outcome(TRUE, FALSE, GoodText), Outcome(FALSE, TRUE, GoodText),
          Outcome(FALSE, FALSE, GarbageText), Outcome(FALSE, FALSE, GoodText)}

\* Every method below yields the set of its possible results: one per way the
\* providers may answer the calls it makes.

RECURSIVE classify_loop(_, _, _)
RECURSIVE classify_item(_, _, _, _)
RECURSIVE classify_step(_, _, _, _)
\* the for loop of create_index and of refresh_index from item k on
classify_loop(advisories, k, acc) ==
    IF k > Len(advisories) THEN {acc}
    ELSE classify_item(advisories, k, acc,
             find_similar_mitre_techniques(advisories[k].content, mitre_embeddings,
                                           TOP_K))

\* mitre_mapping = map_to_mitre_attack(advisory['content'], self.mitre_embeddings),
\* whatever the providers do, and the rest of the loop
classify_item(advisories, k, acc, candidates) ==
    UNION {classify_step(advisories, k, acc,
               map_stages(advisories[k].content, mitre_embeddings, o, candidates))
           : o \in SyncOutcomes}

\* classify_step recording the item whatever its classification returned
classify_step_unclassified(advisories, k, acc, r) ==
    classify_loop(advisories, k + 1,
        [acc EXCEPT !.classified = Append(@, advisories[k]),
                    !.calls = @ \o r.calls,
                    !.documents = Append(@, Document(advisories[k], json_loads(GoodText).value)),
                    !.processed = Append(@, Processed(advisories[k], r.value))])

\* the loop body once the item is classified: mitre_mapping.get(...) raises
\* AttributeError unless the classification returned a dict, which ends the call
classify_step(advisories, k, acc, r) ==
    IF ~IsDict(r.value)
    THEN {[acc EXCEPT !.classified = Append(@, advisories[k]),
                      !.failed = Append(@, advisories[k]),
                      !.calls = @ \o r.calls,
                      !.raised = TRUE]}
    ELSE classify_loop(advisories, k + 1,
             [acc EXCEPT !.classified = Append(@, advisories[k]),
                         !.calls = @ \o r.calls,
                         !.documents = Append(@, Document(advisories[k], r.value)),
                         !.processed = Append(@, Processed(advisories[k], r.value))])

\* the machine after a batch r was classified
Logged(M, r) ==
    [M EXCEPT !.batch = @ \o r.batch,
              !.classified = @ \o r.classified,
              !.failed = @ \o r.failed,
              !.calls = @ \o r.calls]

\* persist_index when index.storage_context.persist raises: nothing is written
index_write_fails(M) ==
    [M EXCEPT !.raised = TRUE, !.persist_failed = TRUE, !.storage.faults = @ + 1]

\* persist_index when json.dump stops after n records, by an exception or by the
\* end of the process: open(metadata_path, 'w') has emptied the file before
metadata_write_fails(M, n) ==
    [M EXCEPT !.raised = TRUE, !.persist_failed = TRUE,
              !.storage = [exists |-> TRUE, index_docs |-> M.index.docs,
                           metadata_exists |-> TRUE,
                           metadata |-> SubSeq(M.advisories_data, 1, n),
                           torn |-> TRUE, written |-> @.written,
                           faults |-> @.faults + 1]]

persisted(M) ==
    [M EXCEPT !.storage =
         [exists |-> TRUE, index_docs |-> M.index.docs,
          metadata_exists |-> TRUE, metadata |-> M.advisories_data,
          torn |-> FALSE, written |-> M.advisories_data, faults |-> @.faults]]

\* the machines persist_index may leave
persist_index(M) ==
    IF M.index.is_none THEN {M}
    ELSE IF mode # "disk" \/ M.storage.faults >= MaxFaults THEN {persisted(M)}
    ELSE {persisted(M), index_write_fails(M)}
         \cup {metadata_write_fails(M, n) : n \in 0..(Len(M.advisories_data) - 1)}
         \cup {metadata_write_fails(M, 0)}

\* create_index from line 86 on: the index is built, the corpus replaced, both persisted
create_index_build(M, r) ==
    IF r.raised THEN {Raise(Logged(M, r))}
    ELSE persist_index([Logged(M, r) EXCEPT !.index = IndexOf(r.documents),
                                            !.advisories_data = r.processed])

\* create_index once the feed is fetched: iterating over None raises TypeError
create_index_fetched(M, advisories) ==
    IF advisories.is_none THEN {Raise(M)}
    ELSE UNION {create_index_build(M, r)
                : r \in classify_loop(advisories.items, 1, StartBatch(advisories.items))}

\* create_index has no return statement: its caller gets None
create_index(M) ==
    create_index_fetched([M EXCEPT !.fetches = @ + 1], fetch_cisa_advisories(feed))

\* a method's result: the machine afterwards and the value returned
Returns(M, ret) == [m |-> M, ret |-> ret]

\* load_existing_index when nothing is persisted: return self.create_index(), and
\* when that raises, the except clause's return self.create_index()
load_created(M1) ==
    IF ~M1.raised THEN {Returns(M1, NoIndex)}
    ELSE {Returns(M2, NoIndex) : M2 \in create_index([M1 EXCEPT !.raised = FALSE])}

\* load_existing_index when json.load of the metadata raises: self.index is
\* loaded already, and the except clause returns self.create_index()
load_torn(M) ==
    {Returns(M2, NoIndex)
     : M2 \in create_index([M EXCEPT !.index = IndexOf(M.storage.index_docs)])}

load_existing_index(M) ==
    IF M.storage.exists /\ M.storage.metadata_exists /\ M.storage.torn
    THEN load_torn(M)
    ELSE IF M.storage.exists
    THEN {Returns([M EXCEPT
                      !.index = IndexOf(M.storage.index_docs),
                      !.advisories_data =
                          IF M.storage.metadata_exists THEN M.storage.metadata ELSE @],
                  IndexOf(M.storage.index_docs))}
    ELSE UNION {load_created(M1) : M1 \in create_index(M)}

\* self.index = self.load_existing_index(): no assignment when the call raised
assign_index(l) ==
    IF l.m.raised THEN Returns(l.m, NoIndex)
    ELSE Returns([l.m EXCEPT !.index = l.ret], l.ret)

get_index(M) ==
    IF M.index.is_none THEN {assign_index(l) : l \in load_existing_index(M)}
    ELSE {Returns(M, M.index)}

\* get_advisories_data building the corpus anew whenever it has none in memory
get_advisories_data_building(M) ==
    IF M.advisories_data = <<>> THEN create_index(M) ELSE {M}

\* the machines afterwards; the value returned is the machine's advisories_data
get_advisories_data(M) ==
    IF M.advisories_data = <<>>
    THEN IF M.storage.metadata_exists /\ M.storage.torn
         THEN {Raise(M)}
         ELSE IF M.storage.metadata_exists
         THEN {[M EXCEPT !.advisories_data = M.storage.metadata]}
         ELSE create_index(M)
    ELSE {M}

IdsOf(records) == {records[i].id : i \in 1..Len(records)}

RECURSIVE NotIn(_, _)
\* [adv for adv in advisories if adv['id'] not in existing_ids]
NotIn(advisories, existing_ids) ==
    IF advisories = <<>> THEN <<>>
    ELSE IF Head(advisories).id \in existing_ids
         THEN NotIn(Tail(advisories), existing_ids)
         ELSE <<Head(advisories)>> \o NotIn(Tail(advisories), existing_ids)

\* refresh_index returns self.index unless persist_index raised
inserted(M2) == Returns(M2, IF M2.raised THEN NoIndex ELSE M2.index)

\* refresh_insert with the corpus replaced by the new records instead of extended
refresh_insert_replacing(existing_advisories, r, l) ==
    IF l.m.raised THEN {Returns(l.m, NoIndex)}
    ELSE IF l.m.index.is_none THEN {Returns(Raise(l.m), NoIndex)}
    ELSE {inserted(M2)
          : M2 \in persist_index(
                       [l.m EXCEPT !.index = IndexOf(@.docs \o r.documents),
                                   !.advisories_data = r.processed])}

\* refresh_index from line 317 on: insert, extend the corpus, persist
refresh_insert(existing_advisories, r, l) ==
    IF l.m.raised THEN {Returns(l.m, NoIndex)}
    ELSE IF l.m.index.is_none THEN {Returns(Raise(l.m), NoIndex)}
    ELSE {inserted(M2)
          : M2 \in persist_index(
                       [l.m EXCEPT !.index = IndexOf(@.docs \o r.documents),
                                   !.advisories_data = existing_advisories \o r.processed])}

\* refresh_index once the new advisories are classified (r)
refresh_classified(M1, r) ==
    IF r.raised THEN {Returns(Raise(Logged(M1, r)), NoIndex)}
    ELSE IF M1.index.is_none
    THEN UNION {refresh_insert(M1.advisories_data, r, assign_index(l))
                : l \in load_existing_index(Logged(M1, r))}
    ELSE refresh_insert(M1.advisories_data, r, Returns(Logged(M1, r), M1.index))

\* refresh_index once new_advisories_to_process is computed
refresh_new(M1, new_advisories_to_process) ==
    IF new_advisories_to_process = <<>> THEN get_index(M1)
    ELSE UNION {refresh_classified(M1, r)
                : r \in classify_loop(new_advisories_to_process, 1,
                                       StartBatch(new_advisories_to_process))}

\* the incremental branch once the feed is fetched and the corpus loaded
refresh_diff(M1, new_advisories) ==
    IF M1.raised THEN {Returns(M1, NoIndex)}
    ELSE IF new_advisories.is_none THEN {Returns(Raise(M1), NoIndex)}
    ELSE refresh_new(M1, NotIn(new_advisories.items, IdsOf(M1.advisories_data)))

refresh_index(M, force_rebuild) ==
    IF force_rebuild
    THEN {Returns(M1, NoIndex)
          : M1 \in create_index([M EXCEPT !.index = NoIndex, !.advisories_data = <<>>])}
    ELSE UNION {refresh_diff(M1, fetch_cisa_advisories(feed))
                : M1 \in get_advisories_data([M EXCEPT !.fetches = @ + 1])}

NoReport ==
    [has_updates |-> FALSE, has_error |-> FALSE, new_count |-> 0, total_current |-> 0,
     new_advisories |-> <<>>]

\* the dict returned from the try block
report(existing_advisories, new_advisories_available) ==
    [has_updates |-> Len(new_advisories_available) > 0,
     has_error |-> FALSE,
     new_count |-> Len(new_advisories_available),
     total_current |-> Len(existing_advisories),
     new_advisories |-> Take(new_advisories_available, 3)]

\* the except clause: its dict is built from get_advisories_data() again (M2),
\* which may raise out of check_for_updates
error_report(M2) ==
    Returns(M2,
            IF M2.raised THEN NoReport
            ELSE [NoReport EXCEPT !.has_error = TRUE,
                                  !.total_current = Len(M2.advisories_data)])

\* check_for_updates once the feed is fetched and the corpus loaded
check_diff(M1, new_advisories) ==
    IF ~M1.raised /\ ~new_advisories.is_none
    THEN {Returns(M1, report(M1.advisories_data,
                             NotIn(new_advisories.items, IdsOf(M1.advisories_data))))}
    ELSE {error_report(M2) : M2 \in get_advisories_data([M1 EXCEPT !.raised = FALSE])}

check_for_updates(M) ==
    UNION {check_diff(M1, fetch_cisa_advisories(feed))
           : M1 \in get_advisories_data([M EXCEPT !.fetches = @ + 1])}

(***************************************************************************)
(* The state machine                                                       *)
(***************************************************************************)
NoCall ==
    [op |-> "__init__", force_rebuild |-> FALSE, raised |-> FALSE,
     batch |-> <<>>, classified |-> <<>>, failed |-> <<>>, calls |-> <<>>,
     fetches |-> 0, persist_failed |-> FALSE, ret |-> NoIndex]

\* IndexManager(): create_mitre_embeddings has made its embedding calls
Constructed == [NoCall EXCEPT !.calls = create_mitre_embeddings_calls(MitreData)]

\* one run of create_mitre_embeddings(embed_model): the embedding call for the
\* item fails_at raises (0: none does) and the exception leaves the function,
\* value being the local dict as it is then
create_mitre_embeddings_run(data, fails_at) ==
    IF fails_at = 0
    THEN [raised |-> FALSE, value |-> create_mitre_embeddings(data),
          calls |-> create_mitre_embeddings_calls(data)]
    ELSE [raised |-> TRUE, value |-> create_mitre_embeddings(Take(data, fails_at - 1)),
          calls |-> create_mitre_embeddings_calls(Take(data, fails_at))]

\* IndexManager_init keeping what create_mitre_embeddings had built when it raised
IndexManager_init_partial(run) ==
    [raised |-> FALSE, mitre_embeddings |-> run.value]

\* line 30 of IndexManager.__init__: the exception of create_mitre_embeddings
\* leaves the constructor, and there is no object
IndexManager_init(run) ==
    IF run.raised THEN [raised |-> TRUE, mitre_embeddings |-> <<>>]
    ELSE [raised |-> FALSE, mitre_embeddings |-> run.value]

\* the items of the taxonomy at which the embedding provider may fail
FailurePoints == IF mode = "flaky" THEN 0..Len(MitreData) ELSE {0}

\* there is an IndexManager: the last IndexManager() did not raise
Alive == ~(last.op = "__init__" /\ last.raised)

NoClassification ==
    [content |-> "", embeddings |-> <<>>, outcome |-> Outcome(FALSE, FALSE, GarbageText),
     value |-> None, calls |-> <<>>, reached |-> "none", techniques |-> <<>>]

NoRank ==
    [content |-> "", embeddings |-> <<>>, top_k |-> 0, embed_raises |-> FALSE,
     returned |-> FALSE, raised |-> FALSE, value |-> <<>>]

\* the feeds of at most n entries
FeedsUpTo(n) == {[raises |-> FALSE, entries |-> e] : e \in SeqsUpTo(Entries, n)}

\* the feed does not answer: fetch_cisa_advisories raises inside its try block
Unreachable == [raises |-> TRUE, entries |-> <<>>]

Init ==
    /\ index = NoIndex
    /\ advisories_data = <<>>
    /\ mitre_embeddings = create_mitre_embeddings(MitreData)
    /\ storage = NoStorage
    /\ feed = [raises |-> FALSE, entries |-> <<>>]
    /\ last = Constructed
    /\ cls = NoClassification
    /\ rank = NoRank
    /\ mode = "plain"

\* the call ends with result r: the fields and the storage are as it left them
Finish(name, force_rebuild, r) ==
    /\ index' = r.m.index
    /\ advisories_data' = r.m.advisories_data
    /\ storage' = r.m.storage
    /\ last' = [op |-> name, force_rebuild |-> force_rebuild, raised |-> r.m.raised,
                batch |-> r.m.batch, classified |-> r.m.classified,
                failed |-> r.m.failed, calls |-> r.m.calls,
                fetches |-> r.m.fetches, persist_failed |-> r.m.persist_failed,
                ret |-> r.ret]
    /\ UNCHANGED <<mitre_embeddings, feed, cls, rank, mode>>

\* a new process: IndexManager() over the storage the last one left
Construct ==
    \E fails_at \in FailurePoints :
        /\ index' = NoIndex
        /\ advisories_data' = <<>>
        /\ mitre_embeddings' =
               IndexManager_init(create_mitre_embeddings_run(MitreData, fails_at)).mitre_embeddings
        /\ last' = [NoCall EXCEPT
                       !.calls = create_mitre_embeddings_run(MitreData, fails_at).calls,
                       !.raised =
                           IndexManager_init(create_mitre_embeddings_run(MitreData, fails_at)).raised]
        /\ UNCHANGED <<storage, feed, cls, rank, mode>>

CreateIndex ==
    /\ Alive
    /\ \E M1 \in create_index(Machine) : Finish("create_index", FALSE, Returns(M1, NoIndex))

CheckForUpdates ==
    /\ Alive
    /\ \E r \in check_for_updates(Machine) : Finish("check_for_updates", FALSE, r)

GetIndex ==
    /\ Alive
    /\ \E r \in get_index(Machine) : Finish("get_index", FALSE, r)

GetAdvisoriesData ==
    /\ Alive
    /\ \E M1 \in get_advisories_data(Machine) :
        Finish("get_advisories_data", FALSE, Returns(M1, NoIndex))

RefreshIndex ==
    /\ Alive
    /\ \E force_rebuild \in BOOLEAN :
        \E r \in refresh_index(Machine, force_rebuild) :
            Finish("refresh_index", force_rebuild, r)

\* the feed publishes an entry at its head
Publish ==
    /\ ~feed.raises
    /\ Len(feed.entries) < MaxFeed
    /\ \E e \in FeedEntries : feed' = [feed EXCEPT !.entries = <<e>> \o @]

\* the feed withdraws an entry
Withdraw ==
    /\ ~feed.raises
    /\ \E i \in 1..Len(feed.entries) :
           feed' = [feed EXCEPT !.entries =
                       SubSeq(@, 1, i - 1) \o SubSeq(@, i + 1, Len(@))]

\* the feed edits an entry: another guid, or another summary and title
Edit ==
    /\ ~feed.raises
    /\ \E i \in 1..Len(feed.entries) :
           \E e \in Entries \ {feed.entries[i]} :
               feed' = [feed EXCEPT !.entries[i] = e]

\* the feed stops answering, or answers again
Outage ==
    \/ ~feed.raises /\ feed' = Unreachable
    \/ feed.raises /\ feed' \in FeedsUpTo(MaxFeed)

FeedChange ==
    /\ Publish \/ Withdraw \/ Edit \/ Outage
    /\ last' = [NoCall EXCEPT !.op = "feed"]
    /\ UNCHANGED <<index, advisories_data, mitre_embeddings, storage, cls, rank, mode>>

Next ==
    \/ Construct
    \/ CreateIndex
    \/ CheckForUpdates
    \/ GetIndex
    \/ GetAdvisoriesData
    \/ RefreshIndex
    \/ FeedChange

Spec == Init /\ [][Next]_vars

\* the feed publishes an entry, and nothing else happens to it
FeedGrows ==
    /\ Publish
    /\ last' = [NoCall EXCEPT !.op = "feed"]
    /\ UNCHANGED <<index, advisories_data, mitre_embeddings, storage, cls, rank, mode>>

NextGrowing ==
    \/ Construct
    \/ CreateIndex
    \/ CheckForUpdates
    \/ GetIndex
    \/ GetAdvisoriesData
    \/ RefreshIndex
    \/ FeedGrows

\* the same program over a storage whose writes may fail
InitDisk ==
    /\ index = NoIndex
    /\ advisories_data = <<>>
    /\ mitre_embeddings = create_mitre_embeddings(MitreData)
    /\ storage = NoStorage
    /\ feed = [raises |-> FALSE, entries |-> <<>>]
    /\ last = Constructed
    /\ cls = NoClassification
    /\ rank = NoRank
    /\ mode = "disk"

SpecDisk == InitDisk /\ [][NextGrowing]_vars

\* the same program with a completion provider whose JSON is of another shape
InitEvasive ==
    /\ index = NoIndex
    /\ advisories_data = <<>>
    /\ mitre_embeddings = create_mitre_embeddings(MitreData)
    /\ storage = NoStorage
    /\ feed = [raises |-> FALSE, entries |-> <<>>]
    /\ last = Constructed
    /\ cls = NoClassification
    /\ rank = NoRank
    /\ mode = "evasive"

SpecEvasive == InitEvasive /\ [][NextGrowing]_vars

\* the same program over a feed with entries that have no guid
InitGuidless ==
    /\ index = NoIndex
    /\ advisories_data = <<>>
    /\ mitre_embeddings = create_mitre_embeddings(MitreData)
    /\ storage = NoStorage
    /\ feed = [raises |-> FALSE, entries |-> <<>>]
    /\ last = Constructed
    /\ cls = NoClassification
    /\ rank = NoRank
    /\ mode = "guidless"

SpecGuidless == InitGuidless /\ [][NextGrowing]_vars

\* the same program with an embedding provider that may fail while
\* IndexManager() embeds the taxonomy
InitFlaky ==
    /\ index = NoIndex
    /\ advisories_data = <<>>
    /\ mitre_embeddings = create_mitre_embeddings(MitreData)
    /\ storage = NoStorage
    /\ feed = [raises |-> FALSE, entries |-> <<>>]
    /\ last = Constructed
    /\ cls = NoClassification
    /\ rank = NoRank
    /\ mode = "flaky"

\* the feed publishes an entry while there is an IndexManager
FeedGrowsAlive == Alive /\ FeedGrows

NextFlaky ==
    \/ Construct
    \/ CreateIndex
    \/ CheckForUpdates
    \/ GetIndex
    \/ GetAdvisoriesData
    \/ RefreshIndex
    \/ FeedGrowsAlive

SpecFlaky == InitFlaky /\ [][NextFlaky]_vars

(***************************************************************************)
(* map_to_mitre_attack on its own: every content, with and without the     *)
(* taxonomy embeddings, against everything the providers may do            *)
(***************************************************************************)
Contents == {e.text : e \in Entries}

\* the ids a completion response lists: two candidates of every content's
\* shortlist or of one content's only, and one id outside the taxonomy
ListedIds == {"T1", "T2", "T6", "T9"}

ResponseTexts ==
    {GarbageText, NullText, ArrayText(<<>>), ArrayText(<<"T2">>),
     ObjectText({}, <<>>), ObjectText({"confidence"}, <<>>)}
    \cup {ObjectText(keys, ids) :
             keys \in {{"mapped_techniques"}, {"mapped_techniques", "confidence"}},
             ids \in SeqsUpTo(ListedIds, MaxMapped)}

MapOutcomes ==
    {Outcome(TRUE, FALSE, GarbageText), Outcome(FALSE, TRUE, GarbageText),
     Outcome(TRUE, FALSE, ObjectText({"mapped_techniques"}, <<"T2">>))}
    \cup {Outcome(FALSE, FALSE, text) : text \in ResponseTexts}

\* the call about to be made: its content, the embeddings it is given, and what
\* the providers will do
InitMap ==
    /\ index = NoIndex
    /\ advisories_data = <<>>
    /\ mitre_embeddings = create_mitre_embeddings(MitreData)
    /\ storage = NoStorage
    /\ feed = [raises |-> FALSE, entries |-> <<>>]
    /\ last = NoCall
    /\ rank = NoRank
    /\ mode = "plain"
    /\ \E advisory_content \in Contents,
          embeddings \in {create_mitre_embeddings(MitreData), <<>>},
          outcome \in MapOutcomes :
           cls = [NoClassification EXCEPT !.content = advisory_content,
                                          !.embeddings = embeddings,
                                          !.outcome = outcome]

\* one call map_to_mitre_attack(advisory_content, mitre_embeddings)
Classify ==
    /\ cls.reached = "none"
    /\ cls' = [cls EXCEPT
                 !.value = map_to_mitre_attack(cls.content, cls.embeddings, cls.outcome).value,
                 !.calls = map_to_mitre_attack(cls.content, cls.embeddings, cls.outcome).calls,
                 !.reached = map_to_mitre_attack(cls.content, cls.embeddings, cls.outcome).reached,
                 !.techniques = map_to_mitre_attack(cls.content, cls.embeddings, cls.outcome).techniques]
    /\ UNCHANGED <<index, advisories_data, mitre_embeddings, storage, feed, last, rank, mode>>

NextMap == Classify

SpecMap == InitMap /\ [][NextMap]_vars


(***************************************************************************)
(* find_similar_mitre_techniques on its own: every content against the     *)
(* embedding maps of small taxonomies, for every top_k                     *)
(***************************************************************************)
\* the embedding maps built from at most MaxTaxonomy techniques of the taxonomy,
\* a technique possibly listed twice
EmbeddingMaps ==
    {create_mitre_embeddings(data) : data \in SeqsUpTo(Range(MitreData), MaxTaxonomy)}

InitRank ==
    /\ index = NoIndex
    /\ advisories_data = <<>>
    /\ mitre_embeddings = create_mitre_embeddings(MitreData)
    /\ storage = NoStorage
    /\ feed = [raises |-> FALSE, entries |-> <<>>]
    /\ last = NoCall
    /\ cls = NoClassification
    /\ mode = "plain"
    /\ \E advisory_content \in Contents, embeddings \in EmbeddingMaps,
          top_k \in 0..MaxTopK, embed_raises \in BOOLEAN :
           rank = [NoRank EXCEPT !.content = advisory_content,
                                 !.embeddings = embeddings,
                                 !.top_k = top_k,
                                 !.embed_raises = embed_raises]

\* one call find_similar_mitre_techniques(advisory_content, mitre_embeddings, top_k):
\* the embedding call at line 73 may raise, and then nothing is returned
Rank ==
    /\ ~rank.returned /\ ~rank.raised
    /\ rank' = IF rank.embed_raises THEN [rank EXCEPT !.raised = TRUE]
               ELSE [rank EXCEPT
                        !.returned = TRUE,
                        !.value = find_similar_mitre_techniques(
                                      rank.content, rank.embeddings, rank.top_k)]
    /\ UNCHANGED <<index, advisories_data, mitre_embeddings, storage, feed, last, cls, mode>>

NextRank == Rank

SpecRank == InitRank /\ [][NextRank]_vars

\* C11: find_similar_mitre_techniques returns at most top_k entries, no entry
\* before one of greater similarity, each with a technique id that is a key of
\* the embedding map, no id twice; from an empty map it returns an empty list.
C11_RankedShortlist ==
    rank.returned
        => /\ Len(rank.value) <= rank.top_k
           /\ \A i, j \in 1..Len(rank.value) :
                  i < j => ~SimLess(rank.value[i].similarity, rank.value[j].similarity)
           /\ \A i \in 1..Len(rank.value) :
                  \E k \in 1..Len(rank.embeddings) :
                      rank.embeddings[k].technique_id = rank.value[i].technique_id
           /\ \A i, j \in 1..Len(rank.value) :
                  rank.value[i].technique_id = rank.value[j].technique_id => i = j
           /\ rank.embeddings = <<>> => rank.value = <<>>

\* a map of three techniques ranked for top_k = 2: two entries come back, and the
\* first of them is not the map's first technique
C11_Witness ==
    /\ rank.returned
    /\ Len(rank.embeddings) = 3 /\ rank.top_k = 2 /\ Len(rank.value) = 2
    /\ rank.value[1].technique_id # rank.embeddings[1].technique_id

\* a document the embedding provider answers with the zero vector
ZeroText == "z"

\* the same calls, the document possibly one of zero embedding
InitZero ==
    /\ index = NoIndex
    /\ advisories_data = <<>>
    /\ mitre_embeddings = create_mitre_embeddings(MitreData)
    /\ storage = NoStorage
    /\ feed = [raises |-> FALSE, entries |-> <<>>]
    /\ last = NoCall
    /\ cls = NoClassification
    /\ mode = "plain"
    /\ \E advisory_content \in Contents \cup {ZeroText}, embeddings \in EmbeddingMaps,
          top_k \in 0..MaxTopK, embed_raises \in BOOLEAN :
           rank = [NoRank EXCEPT !.content = advisory_content,
                                 !.embeddings = embeddings,
                                 !.top_k = top_k,
                                 !.embed_raises = embed_raises]

SpecZero == InitZero /\ [][NextRank]_vars

\* C23: every similarity the ranking returns was computed with a denominator
\* that is not 0, and so is a number: of two returned similarities one is
\* smaller than the other or they are equal.
C23_ZeroNormGuarded ==
    rank.returned
        => \A i \in 1..Len(rank.value) :
               /\ ~IsNaN(rank.value[i].similarity)
               /\ \A j \in 1..Len(rank.value) :
                      \/ SimLess(rank.value[i].similarity, rank.value[j].similarity)
                      \/ SimLess(rank.value[j].similarity, rank.value[i].similarity)
                      \/ rank.value[i].similarity.dot * rank.value[i].similarity.dot
                             * rank.value[j].similarity.nsq
                         = rank.value[j].similarity.dot * rank.value[j].similarity.dot
                             * rank.value[i].similarity.nsq

\* the place of the technique id in the iteration order of the ranked map
PositionOf(id) == CHOOSE k \in 1..Len(rank.embeddings) : rank.embeddings[k].technique_id = id

\* the similarity the ranking computes for the k-th technique of the map
SimilarityAt(k) == CosineSim(rank.embeddings[k].embedding, TextEmbedding(rank.content))

\* neither similarity is smaller than the other
SameSim(x, y) == ~SimLess(x, y) /\ ~SimLess(y, x)

\* C22: two techniques of equal similarity come back in the iteration order of
\* the embedding map, and of the techniques equal to a returned one, those left
\* out by the top_k cut are later in the iteration order.
C22_StableTies ==
    rank.returned
        => /\ \A i, j \in 1..Len(rank.value) :
                  (i < j /\ SameSim(rank.value[i].similarity, rank.value[j].similarity))
                      => PositionOf(rank.value[i].technique_id)
                             < PositionOf(rank.value[j].technique_id)
           /\ \A i \in 1..Len(rank.value), k \in 1..Len(rank.embeddings) :
                  (/\ \A j \in 1..Len(rank.value) :
                          rank.value[j].technique_id # rank.embeddings[k].technique_id
                   /\ SameSim(rank.value[i].similarity, SimilarityAt(k)))
                      => PositionOf(rank.value[i].technique_id) < k

\* content "b" is as similar to T6 as to T2: of the map T6, T2 ranked for
\* top_k = 1, T6 is kept
C22_Witness ==
    /\ rank.returned /\ rank.content = "b" /\ rank.top_k = 1
    /\ [k \in 1..Len(rank.embeddings) |-> rank.embeddings[k].technique_id] = <<"T6", "T2">>
    /\ SameSim(SimilarityAt(1), SimilarityAt(2))
    /\ Len(rank.value) = 1 /\ rank.value[1].technique_id = "T6"

(***************************************************************************)
(* Properties of the sync passes (Spec)                                    *)
(***************************************************************************)
\* the items the feed gives to a call made now
Fetched == fetch_cisa_advisories(feed).items

\* the positions of the fetched items whose id is not in the persisted corpus
NewPositions ==
    {i \in 1..Len(Fetched) : Fetched[i].id \notin IdsOf(storage.metadata)}

RECURSIVE ItemsAt(_, _, _)
\* the items at the positions given, in the order of the list
ItemsAt(items, positions, k) ==
    IF k > Len(items) THEN <<>>
    ELSE IF k \in positions
         THEN <<items[k]>> \o ItemsAt(items, positions, k + 1)
         ELSE ItemsAt(items, positions, k + 1)

\* the item a record was made from
ItemOf(record) == [id |-> record.id, content |-> record.content]

ItemsOf(records) == [i \in 1..Len(records) |-> ItemOf(records[i])]

IsPrefix(s, t) == Len(s) <= Len(t) /\ \A i \in 1..Len(s) : t[i] = s[i]

Incremental(call) == call.op = "refresh_index" /\ ~call.force_rebuild

ForceRebuild(call) == call.op = "refresh_index" /\ call.force_rebuild

\* C1: when the classification of an item fails during a pass of create_index or
\* refresh_index, the pass does not abort: every item of the batch is classified
\* and every item of the batch is a record of the persisted corpus afterwards.
C1_PartialFailureIsolation ==
    (last.op \in {"create_index", "refresh_index"} /\ last.failed # <<>>)
        => /\ ~last.raised
           /\ last.classified = last.batch
           /\ \A i \in 1..Len(last.batch) :
                  last.batch[i].id \in IdsOf(storage.metadata)

\* C3: a refresh_index(force_rebuild=False) that follows another one, the feed
\* being the same, leaves advisories_data, the persisted metadata and index as
\* the first call left them and makes no embedding and no completion call.
C3_SecondRefreshIsNoOp ==
    [][(Incremental(last) /\ Incremental(last'))
           => /\ advisories_data' = advisories_data
              /\ storage' = storage
              /\ index' = index
              /\ last'.calls = <<>>]_vars

\* C4: when exactly one fetched item has an id that is not in the persisted
\* corpus, refresh_index(force_rebuild=False) ends with one record more, that
\* record being the item with a classification, and every provider call of the
\* call is about that item's content.
C4_OneNewItem ==
    [][(Cardinality(NewPositions) = 1 /\ Incremental(last'))
           => \E i \in NewPositions :
                 /\ Len(storage'.metadata) = Len(storage.metadata) + 1
                 /\ advisories_data' = storage'.metadata
                 /\ ItemOf(storage'.metadata[Len(storage'.metadata)]) = Fetched[i]
                 /\ IsDict(storage'.metadata[Len(storage'.metadata)].mitre_mapping)
                 /\ last'.classified = <<Fetched[i]>>
                 /\ \A k \in 1..Len(last'.calls) :
                        last'.calls[k].content = Fetched[i].content]_vars

\* C5: refresh_index(force_rebuild=True) classifies every fetched item once, the
\* persisted ones too, and when it returns the persisted corpus and the persisted
\* index are made of the fetched items and nothing else.
C5_ForceRebuildReplaces ==
    ForceRebuild(last)
        => /\ last.classified = Fetched
           /\ ~last.raised
                  => /\ ItemsOf(storage.metadata) = Fetched
                     /\ ItemsOf(storage.index_docs) = Fetched

\* C6: refresh_index(force_rebuild=False) classifies once each fetched item whose
\* id is not in the persisted corpus, and no item whose id is in it, whatever
\* the item's content.
C6_ClassifiesExactlyTheNew ==
    [][Incremental(last')
           => last'.classified = ItemsAt(Fetched, NewPositions, 1)]_vars

\* C7: check_for_updates leaves advisories_data, the persisted metadata and index
\* as they were and makes no embedding and no completion call, in every state.
C7_CheckIsReadOnly ==
    [][last'.op = "check_for_updates"
           => /\ advisories_data' = advisories_data
              /\ storage' = storage
              /\ index' = index
              /\ last'.calls = <<>>]_vars

UniqueIds(records) ==
    \A i, j \in 1..Len(records) : records[i].id = records[j].id => i = j

\* C8: no two records of advisories_data, and no two records of the persisted
\* metadata, have the same id.
C8_UniqueIds == UniqueIds(advisories_data) /\ UniqueIds(storage.metadata)

\* C9: refresh_index(force_rebuild=False) keeps every record of the corpus, in
\* memory and persisted, unchanged and in its place, whether or not its item is
\* still in the feed; a persisted record goes away or changes only in a rebuild
\* (create_index, refresh_index(force_rebuild=True)).
C9_IncrementalKeepsRecords ==
    [][/\ Incremental(last')
             => /\ IsPrefix(storage.metadata, storage'.metadata)
                /\ IsPrefix(advisories_data, advisories_data')
       /\ ~IsPrefix(storage.metadata, storage'.metadata)
             => last'.op = "create_index" \/ ForceRebuild(last')]_vars

\* an incremental sync has added a record, and a record whose item is no longer
\* in the feed is still there
C9_Witness ==
    /\ Incremental(last) /\ ~last.raised /\ last.classified # <<>>
    /\ \E i \in 1..Len(storage.metadata) : storage.metadata[i].id \notin IdsOf(Fetched)

\* C12: a record is part of the corpus, in memory or persisted, only with the
\* result of its item's classification attached: every record holds a mapping,
\* and a record that a call adds to the persisted metadata is of an item that
\* the call classified, its completion call made.
C12_ClassifiedBeforeRecorded ==
    [][/\ \A i \in 1..Len(advisories_data') : IsDict(advisories_data'[i].mitre_mapping)
       /\ \A i \in 1..Len(storage'.metadata) : IsDict(storage'.metadata[i].mitre_mapping)
       /\ \A record \in Range(storage'.metadata) \ Range(storage.metadata) :
              /\ ItemOf(record) \in Range(last'.classified)
              /\ \E k \in 1..Len(last'.calls) :
                     /\ last'.calls[k].fn = "complete"
                     /\ last'.calls[k].content = record.content]_vars

\* create_index has classified two items and persisted their two records
C12_Witness ==
    /\ last.op = "create_index" /\ ~last.raised
    /\ Len(storage.metadata) = 2
    /\ last.classified = ItemsOf(storage.metadata)
    /\ advisories_data = storage.metadata

\* C13: when the fetch of the feed fails, refresh_index (force_rebuild or not)
\* raises and check_for_updates raises or returns an error report; no item is
\* classified and the persisted index and metadata stay exactly as they were.
C13_FetchFailureLeavesCorpus ==
    [][(feed.raises /\ last'.op \in {"refresh_index", "check_for_updates"})
           => /\ storage' = storage
              /\ last'.classified = <<>> /\ last'.calls = <<>>
              /\ last'.op = "refresh_index" => last'.raised
              /\ last'.op = "check_for_updates"
                     => last'.raised \/ last'.ret.has_error]_vars

\* a force rebuild has failed on the unreachable feed over a persisted corpus
C13_Witness ==
    /\ feed.raises
    /\ ForceRebuild(last) /\ last.raised
    /\ storage.metadata # <<>>

\* C16: the embedding map holds one embedding for each technique id of the
\* taxonomy; IndexManager() makes one embedding call per technique, and every
\* later method works on the same map and makes no embedding call for a
\* technique.
C16_EmbeddingsOncePerTechnique ==
    [][/\ \A id \in TechniqueIds :
              Cardinality({k \in 1..Len(mitre_embeddings') :
                              mitre_embeddings'[k].technique_id = id}) = 1
       /\ Len(mitre_embeddings') = Cardinality(TechniqueIds)
       /\ last'.op = "__init__"
              => \A id \in TechniqueIds :
                     Cardinality({k \in 1..Len(last'.calls) :
                                     last'.calls[k].content = id}) = 1
       /\ last'.op # "__init__"
              => /\ mitre_embeddings' = mitre_embeddings
                 /\ \A k \in 1..Len(last'.calls) :
                        last'.calls[k].content \notin TechniqueIds]_vars

\* one call has classified two items, each ranked against the embedding map
C16_Witness ==
    /\ last.op = "refresh_index" /\ ~last.raised
    /\ Len(last.classified) = 2
    /\ Cardinality({k \in 1..Len(last.calls) : last.calls[k].fn = "embed"}) = 2

\* the fetched items whose id is not in the persisted corpus, in fetch order
NewItems == ItemsAt(Fetched, NewPositions, 1)

\* C17: the report of check_for_updates has new_count = the number of fetched
\* items whose id is not in the persisted corpus, has_updates exactly when that
\* number is positive, and as preview the first 3 of those items at most.
C17_UpdateReport ==
    [][(last'.op = "check_for_updates" /\ ~last'.raised)
           => /\ last'.ret.new_count = Len(NewItems)
              /\ last'.ret.has_updates = (Len(NewItems) > 0)
              /\ last'.ret.new_advisories = Take(NewItems, 3)]_vars

\* a refresh_index(force_rebuild=True) that raised because the fetch failed or
\* the classification of an item gave no mapping
RebuildFailed(call) == ForceRebuild(call) /\ call.raised /\ ~call.persist_failed

\* C28: a refresh_index(force_rebuild=True) that fails so leaves the storage as
\* it was, and a get_advisories_data() right after it returns the persisted
\* corpus, makes no provider call and writes nothing.
C28_RebuildFailureKeepsCorpus ==
    [][/\ RebuildFailed(last') => storage' = storage
       /\ (RebuildFailed(last) /\ last'.op = "get_advisories_data")
              => /\ ~last'.raised
                 /\ advisories_data' = storage.metadata
                 /\ last'.calls = <<>>
                 /\ storage' = storage]_vars

\* C28, amended: a refresh_index(force_rebuild=True) that fails so leaves the
\* storage as it was, and when a metadata file was written whole before it, a
\* get_advisories_data() right after it returns the records of that file, makes
\* no provider call, fetches nothing and writes nothing.
C28_RebuildFailureKeepsPersisted ==
    [][/\ RebuildFailed(last') => storage' = storage
       /\ (/\ RebuildFailed(last)
           /\ storage.metadata_exists /\ ~storage.torn
           /\ last'.op = "get_advisories_data")
              => /\ ~last'.raised
                 /\ advisories_data' = storage.metadata
                 /\ last'.calls = <<>> /\ last'.fetches = 0
                 /\ storage' = storage]_vars

\* a force rebuild over a persisted corpus has raised at an item whose
\* classification gave no mapping: nothing is in memory, the storage has its records
C28_Witness ==
    /\ RebuildFailed(last) /\ last.failed # <<>>
    /\ index.is_none /\ advisories_data = <<>>
    /\ storage.metadata_exists /\ storage.metadata # <<>>

\* C27: a get_index call that returns gives an index, not None, and leaves
\* self.index set to the index it gave.
C27_GetIndexUsable ==
    (last.op = "get_index" /\ ~last.raised)
        => /\ ~last.ret.is_none
           /\ index = last.ret

(***************************************************************************)
(* Properties of the ids of fetched items (SpecGuidless)                   *)
(***************************************************************************)
\* the positions of the entry in the entries served
PositionsOf(e, entries) == {i \in 1..Len(entries) : entries[i] = e}

\* C29: an entry the feed serves before and after a change of the feed is given
\* the same id by both fetches, two different entries of one fetch are given
\* different ids, and an incremental sync that returns has recorded every
\* served entry whose text no persisted record had.
C29_StableIds ==
    [][/\ \A e \in Range(feed.entries) \cap Range(feed'.entries) :
              \A i \in PositionsOf(e, feed.entries), j \in PositionsOf(e, feed'.entries) :
                  (/\ Cardinality(PositionsOf(e, feed.entries)) = 1
                   /\ Cardinality(PositionsOf(e, feed'.entries)) = 1)
                      => fetch_cisa_advisories(feed).items[i].id
                             = fetch_cisa_advisories(feed').items[j].id
       /\ \A i, j \in 1..Len(feed.entries) :
              feed.entries[i] # feed.entries[j]
                  => fetch_cisa_advisories(feed).items[i].id
                         # fetch_cisa_advisories(feed).items[j].id
       /\ (Incremental(last') /\ ~last'.raised)
              => \A i \in 1..Len(feed.entries) :
                     (\A k \in 1..Len(storage.metadata) :
                          storage.metadata[k].content # feed.entries[i].text)
                         => \E k \in 1..Len(storage'.metadata) :
                                storage'.metadata[k].content = feed.entries[i].text]_vars

(***************************************************************************)
(* Properties of the taxonomy embeddings (SpecFlaky)                       *)
(***************************************************************************)
\* C25: whenever there is an IndexManager, its embedding map has an embedding
\* for every technique id of the taxonomy; when the embedding provider failed
\* during IndexManager() there is none, no method runs, and every completion
\* call of a sync pass is on a shortlist ranked from the whole map.
C25_NoPartialEmbeddings ==
    /\ Alive => {mitre_embeddings[k].technique_id : k \in 1..Len(mitre_embeddings)}
                     = TechniqueIds
    /\ ~Alive => mitre_embeddings = <<>> /\ index = NoIndex /\ advisories_data = <<>>
    /\ last.op # "__init__"
           => \A k \in 1..Len(last.calls) :
                  last.calls[k].fn = "complete"
                      => Len(last.calls[k].techniques) = Min(TOP_K, Len(MitreData))

\* the embedding provider failed for the third technique, after two embeddings
C25_Witness ==
    /\ last.op = "__init__" /\ last.raised
    /\ Len(last.calls) = 3
    /\ storage.metadata # <<>>

(***************************************************************************)
(* Properties of the storage (SpecDisk)                                    *)
(***************************************************************************)
\* the documents of a vector index and the records of a corpus have the same
\* ids, and no two documents have the same id
InStep(docs, records) ==
    /\ IdsOf(docs) = IdsOf(records)
    /\ \A i, j \in 1..Len(docs) : docs[i].id = docs[j].id => i = j

\* C26: after every create_index or refresh_index call, returned or raised, the
\* vector index has one entry for each id of the corpus and no other entry, in
\* memory (when an index is loaded) and in the storage.
C26_IndexAndCorpusInStep ==
    last.op \in {"create_index", "refresh_index"}
        => /\ ~index.is_none => InStep(index.docs, advisories_data)
           /\ InStep(storage.index_docs, storage.metadata)

\* C14: when a write of persist_index fails during create_index or
\* refresh_index, the call raises and advisories_data is the corpus of the last
\* write that succeeded.
C14_FailedWriteNotCommitted ==
    (last.op \in {"create_index", "refresh_index"} /\ last.persist_failed)
        => /\ last.raised
           /\ advisories_data = storage.written

\* C15: the metadata file always holds a complete record list, the one of the
\* last write or the one before, never a part of one.
C15_MetadataNeverPartial == ~storage.torn

(***************************************************************************)
(* Properties of the sync passes over odd completions (SpecEvasive)        *)
(***************************************************************************)
\* C20: when the completion text is JSON without the mapped_techniques array,
\* the sync pass does not raise and the item is stored, with an empty list of
\* techniques.
C20_ShapelessResultStored ==
    (last.op \in {"create_index", "refresh_index"} /\ last.batch # <<>>)
        => /\ ~last.raised
           /\ \A i \in 1..Len(last.batch) :
                  \E k \in 1..Len(storage.metadata) :
                      /\ ItemOf(storage.metadata[k]) = last.batch[i]
                      /\ IsDict(storage.metadata[k].mitre_mapping)
                      /\ "mapped_techniques" \notin storage.metadata[k].mitre_mapping.keys
                             => storage.index_docs[k].mitre_techniques = <<>>

(***************************************************************************)
(* Properties of map_to_mitre_attack (SpecMap)                             *)
(***************************************************************************)
\* C2: when the ranking stage or the refinement stage raises, the completion
\* text "not json" included, map_to_mitre_attack returns a result whose list of
\* mapped techniques is empty and whose confidence is "unknown".
C2_FailureGivesEmptyResult ==
    cls.reached \in {"rank", "refine"}
        => /\ IsDict(cls.value)
           /\ cls.value.mapped_techniques = <<>>
           /\ cls.value.confidence = "unknown"

\* C10: the result of the refinement stage lists at most 3 technique ids, each
\* of them one of the ids that were passed to the stage.
C10_AtMostThreeCandidates ==
    (cls.reached = "done" /\ IsDict(cls.value))
        => /\ Len(cls.value.mapped_techniques) <= 3
           /\ Range(cls.value.mapped_techniques) \subseteq Range(cls.techniques)

\* the similarity of the technique id to the content of the classified item
SimilarityTo(id) ==
    CosineSim(TextEmbedding(id), TextEmbedding(cls.content))

\* C18: with embeddings at hand, the techniques serialized into the prompt are
\* the shortlist of the ranking: at most 5 techniques of the embedding map, none
\* twice, none less similar to the content than a technique left out, and not
\* the whole taxonomy.
C18_PromptHoldsShortlist ==
    (cls.embeddings # <<>> /\ cls.reached \in {"refine", "done"})
        => /\ Len(cls.techniques) = Min(TOP_K, Len(cls.embeddings))
           /\ \A i, j \in 1..Len(cls.techniques) :
                  cls.techniques[i] = cls.techniques[j] => i = j
           /\ \A i \in 1..Len(cls.techniques) :
                  /\ \E k \in 1..Len(cls.embeddings) :
                         cls.embeddings[k].technique_id = cls.techniques[i]
                  /\ \A k \in 1..Len(cls.embeddings) :
                         cls.embeddings[k].technique_id \notin Range(cls.techniques)
                             => ~SimLess(SimilarityTo(cls.techniques[i]),
                                         SimilarityTo(cls.embeddings[k].technique_id))
           /\ Range(cls.techniques) # TechniqueIds
           /\ cls.calls[Len(cls.calls)] = CompleteCall(cls.content, cls.techniques)

\* content "b" was classified with the embeddings: T1, the technique least
\* similar to it, is not in the prompt
C18_Witness ==
    /\ cls.embeddings # <<>> /\ cls.reached = "done"
    /\ cls.content = "b"
    /\ "T1" \notin Range(cls.techniques)

\* C19: without embeddings, map_to_mitre_attack makes no embedding call and no
\* ranking: its one provider call is the completion call, on the whole taxonomy.
C19_RefineOnly ==
    (cls.embeddings = <<>> /\ cls.reached # "none")
        => /\ cls.reached \in {"refine", "done"}
           /\ cls.calls = <<CompleteCall(cls.content,
                                          [i \in 1..Len(MitreData) |-> MitreData[i].Id])>>

\* a call without embeddings has returned a mapping, with an embedding provider
\* that would have raised
C19_Witness ==
    /\ cls.embeddings = <<>> /\ cls.outcome.embed_raises
    /\ cls.reached = "done" /\ IsDict(cls.value)

\* the positions of the calls to the provider fn among the calls of the
\* classification
CallsTo(fn) == {k \in 1..Len(cls.calls) : cls.calls[k].fn = fn}

\* C21: one classification makes the embedding call for the document before the
\* completion call, makes at most one completion call, and makes no completion
\* call when its ranking stage raised.
C21_StagesInOrder ==
    cls.reached # "none"
        => /\ Cardinality(CallsTo("complete")) <= 1
           /\ Cardinality(CallsTo("embed")) <= 1
           /\ \A e \in CallsTo("embed"), c \in CallsTo("complete") : e < c
           /\ \A k \in 1..Len(cls.calls) : cls.calls[k].content = cls.content
           /\ (cls.embeddings # <<>> /\ cls.outcome.embed_raises)
                  => cls.reached = "rank" /\ CallsTo("complete") = {}
           /\ cls.reached = "done" => CallsTo("complete") # {}

\* the embedding call of a classification raised, with a completion provider
\* that would have answered
C21_Witness ==
    /\ cls.embeddings # <<>> /\ cls.outcome.embed_raises
    /\ cls.outcome.text.form = "object"
    /\ cls.reached = "rank" /\ cls.calls = <<EmbedCall(cls.content)>>

\* C24: the embedding calls of a ranked classification each receive at most
\* MaxChunkTokens tokens, and there is one call per chunk of that many tokens
\* of the document (the last chunk possibly shorter).
C24_ChunkedEmbedding ==
    (cls.embeddings # <<>> /\ cls.reached \in {"refine", "done"})
        => /\ \A k \in CallsTo("embed") :
                  Len(Tokens(cls.calls[k].content)) <= MaxChunkTokens
           /\ Cardinality(CallsTo("embed")) * MaxChunkTokens >= Len(Tokens(cls.content))
           /\ (Cardinality(CallsTo("embed")) - 1) * MaxChunkTokens < Len(Tokens(cls.content))

====
